---- MODULE Spec2Model ----
(***************************************************************************)
(* HugeUploaderNodeClient: the chunked upload session of                   *)
(* huge-uploader-nodejs-client (class HugeUploaderNodeClient).             *)
(*                                                                         *)
(* One session is modelled from the end of the constructor on.  Every      *)
(* action is one callback of the event loop, run to completion: the        *)
(* fs.open / fs.read / fs.close callbacks, the fetch outcome (response or  *)
(* rejection) and the retry timer.  The operations that are outstanding    *)
(* are counted in `pending`, so that nothing in the model presupposes that *)
(* only one of them is outstanding at a time.                              *)
(*                                                                         *)
(* Sizes are in bytes.  A payload is identified by the file offset it was  *)
(* read from and its length.                                               *)
(***************************************************************************)
EXTENDS Integers, Sequences, FiniteSets

(***************************************************************************)
(* Bounds of the model.                                                    *)
(***************************************************************************)
\* small files: 0 .. MaxFileMB whole megabytes, and each of these plus 1 byte
MaxFileMB == 2
\* params.chunkSize is absent or 1 .. MaxChunkMB
MaxChunkMB == 2
\* params.retries is absent or 1 .. MaxRetries
MaxRetries == 2
\* large files: BigFileMB - 1 and BigFileMB megabytes, sent with 1 MB chunks
BigFileMB == 200

(***************************************************************************)
(* Program constants.                                                      *)
(***************************************************************************)
\* this.chunkSize * 1024 * 1024
MB == 1024 * 1024
\* params.chunkSize || 10
DefaultChunkSize == 10
\* params.retries || 5
DefaultRetries == 5

\* res.status === 200 || res.status === 201 || res.status === 204
SuccessStatuses == {200, 201, 204}
\* [408, 502, 503, 504].includes(res.status)
RetryableStatuses == {408, 502, 503, 504}
\* statuses the server answers with in the model: those the code names and
\* three it does not name
Statuses == SuccessStatuses \cup RetryableStatuses \cup {403, 404, 500}

\* a parameter the caller left out of the settings object
Absent == 0
\* no response: nothing answered yet, or fetch rejected
NoStatus == 0

VARIABLES
    settings,       \* the constructor's argument: chunkSize, retries and
                    \* delayBeforeRetry as given (0 where not supplied), the
                    \* names supplied, and whether the caller hands the same
                    \* headers mapping to a second uploader
    thrown,         \* the constructor raised an error to its caller
    headers,        \* this.headers: the caller's mapping, with the three
                    \* protocol headers (id: whose uploader-file-id it holds)
    fileSize,       \* this.fileSize (stats.size)
    chunkSizeBytes, \* this.chunkSizeBytes
    retries,        \* this.retries
    postParams,     \* this.postParams: "undefined" or "object"
    totalChunks,    \* this.totalChunks
    chunkCount,     \* this.chunkCount
    retriesCount,   \* this.retriesCount
    fd,             \* this.fd: "none" (not opened), "open", "closed"
    pos,            \* the file position of the descriptor (kept by the OS)
    pending,        \* outstanding asynchronous operations, by kind
    request,        \* the request last handed to fetch
    emitted,        \* number of events emitted so far, by event type
    lastEvent,      \* the event emitted last
    progressLog,    \* the values of the 'progress' events, in order
    lastStatus,     \* res.status of the response handled last (0: none)
    env,            \* what the environment did so far, by kind
    cur             \* per current chunk index: requests sent, transient
                    \* failures answered, fileRetry events

params == <<settings, thrown, fileSize, chunkSizeBytes, retries, postParams,
            totalChunks>>
observed == <<emitted, lastEvent, progressLog>>
vars == <<settings, thrown, headers,
          fileSize, chunkSizeBytes, retries, postParams, totalChunks,
          chunkCount, retriesCount, fd, pos, pending, request,
          emitted, lastEvent, progressLog, lastStatus, env, cur>>

EventTypes == {"progress", "finish", "error", "fileRetry"}
OpKinds == {"open", "read", "close", "fetch", "timer"}

(***************************************************************************)
(* Pure functions of the code.                                             *)
(***************************************************************************)
Min(a, b) == IF a < b THEN a ELSE b

\* x || d on a number: 0 and undefined are falsy
OrDefault(x, d) == IF x = Absent THEN d ELSE x

\* Math.ceil(a / b) for integers a >= 0, b > 0
Ceil(a, b) == (a + b - 1) \div b

\* Math.ceil(this.fileSize / this.chunkSizeBytes)
TotalChunks(size, csb) == Ceil(size, csb)

\* Math.round((100 / this.totalChunks) * this.chunkCount): Math.round rounds
\* a half up.  The double product equals the exact quotient to within 1e-13,
\* and a quotient that is exactly a half is computed exactly for the chunk
\* counts of the model (100 / total is a dyadic number there).
PercentProgressBeforeIncrement(count, total) ==
    (200 * (count - 1) + total) \div (2 * total)
PercentProgress(count, total) == (200 * count + total) \div (2 * total)

\* res.status === 200 || res.status === 201 || res.status === 204
IsSuccessBelow500(status) == status < 500
IsSuccess(status) == status \in SuccessStatuses

\* [408, 502, 503, 504].includes(res.status)
IsRetryableAnyError(status) == status \notin SuccessStatuses
IsRetryable(status) == status \in RetryableStatuses

\* this.retriesCount++ < this.retries, on the value before the increment
RetryAllowedInclusive(count, budget) == count <= budget
RetryAllowed(count, budget) == count < budget

\* ++this.chunkCount < this.totalChunks, on the value after the increment
HasMoreChunks(count, total) == count < total

\* nread < this.chunkSizeBytes
IsLastChunk(nread, csb) == nread < csb

\* what fs.read delivers at position p: at most csb bytes, up to end of file
BytesRead(p, size, csb) == Min(csb, size - p)

(***************************************************************************)
(* Events.                                                                 *)
(***************************************************************************)
NoEvent == [type |-> "none", chunk |-> 0, value |-> 0, detail |-> "none"]
ProgressEvent(percent) ==
    [type |-> "progress", chunk |-> 0, value |-> percent, detail |-> "none"]
FinishEvent == [type |-> "finish", chunk |-> 0, value |-> 0, detail |-> "none"]
\* detail: "start" (line 292), "status" (line 266), "exhausted" (line 240)
ErrorEvent(detail, chunk) ==
    [type |-> "error", chunk |-> chunk, value |-> 0, detail |-> detail]
FileRetryEvent(chunk, retriesLeft) ==
    [type |-> "fileRetry", chunk |-> chunk, value |-> retriesLeft,
     detail |-> "none"]

RECURSIVE ProgressValues(_)
ProgressValues(evs) ==
    IF evs = <<>> THEN <<>>
    ELSE (IF Head(evs).type = "progress" THEN <<Head(evs).value>> ELSE <<>>)
         \o ProgressValues(Tail(evs))

\* this._eventTarget.emit, for the events of one callback, in order
Emit(evs) ==
    /\ emitted' = [t \in EventTypes |->
                     emitted[t] + Cardinality({i \in DOMAIN evs : evs[i].type = t})]
    /\ lastEvent' = IF evs = <<>> THEN lastEvent ELSE evs[Len(evs)]
    /\ progressLog' = progressLog \o ProgressValues(evs)

(***************************************************************************)
(* Outstanding operations.                                                 *)
(***************************************************************************)
Issue(p, kind) == [p EXCEPT ![kind] = @ + 1]
Complete(p, kind) == [p EXCEPT ![kind] = @ - 1]
Outstanding == pending["open"] + pending["read"] + pending["close"]
               + pending["fetch"] + pending["timer"]
Idle == Outstanding = 0

NoRequest == [idx |-> -1, off |-> 0, len |-> 0, withParams |-> FALSE,
              fileId |-> "none", chunksTotal |-> 0, chunkNumber |-> -1]

(***************************************************************************)
(* The constructor.  Init is the state it leaves for the settings object   *)
(* and the file it was given.  The large files are taken with 1 MB chunks, *)
(* a retry budget of 1, post parameters and no headers mapping.            *)
(***************************************************************************)
SmallSizes == UNION {{n * MB, n * MB + 1} : n \in 0..MaxFileMB}
BigSizes == {(BigFileMB - 1) * MB, BigFileMB * MB}

SettingNames == {"chunkSize", "retries", "delayBeforeRetry"}
\* params.headers: left out, a mapping of the caller that already holds keys
\* named like the protocol headers, or such a mapping that the caller also
\* hands to a second uploader
HeaderKinds == {"absent", "own", "reused"}

\* params.headers || {}
CallerHeaders(kind) ==
    IF kind = "absent" THEN [id |-> "none", total |-> 0, number |-> -1]
    ELSE [id |-> "caller", total |-> 0, number |-> 0]

\* Buffer.alloc(this.chunkSizeBytes) throws on a negative size; for numbers
\* no test of _validateParams is true
ConstructorThrows(given) ==
    OrDefault(given.chunkSize, DefaultChunkSize) * MB < 0

Constructor(size, given, pPost) ==
    /\ settings = given
    /\ thrown = ConstructorThrows(given)
    /\ chunkSizeBytes = OrDefault(given.chunkSize, DefaultChunkSize) * MB
    /\ retries = OrDefault(given.retries, DefaultRetries)
    /\ postParams = pPost
    /\ chunkCount = 0
    /\ retriesCount = 0
    /\ fd = "none"
    /\ pos = 0
    /\ request = NoRequest
    /\ emitted = [t \in EventTypes |-> 0]
    /\ lastEvent = NoEvent
    /\ progressLog = <<>>
    /\ lastStatus = NoStatus
    /\ env = [transient |-> 0, fatal |-> 0, readErr |-> 0, closeErr |-> 0,
              openErr |-> 0]
    /\ cur = [sends |-> 0, transient |-> 0, notices |-> 0]
    /\ IF ConstructorThrows(given)
       THEN /\ fileSize = 0
            /\ totalChunks = 0
            /\ headers = CallerHeaders(given.headers)
            /\ pending = [k \in OpKinds |-> 0]
       ELSE /\ fileSize = size
            /\ totalChunks =
                  TotalChunks(size,
                              OrDefault(given.chunkSize, DefaultChunkSize) * MB)
            \* this.headers['uploader-file-id'], ['uploader-chunks-total']
            /\ headers =
                  [CallerHeaders(given.headers) EXCEPT
                     !.id = "this",
                     !.total = TotalChunks(size,
                                 OrDefault(given.chunkSize, DefaultChunkSize) * MB)]
            \* _startSending has called fs.open
            /\ pending = [k \in OpKinds |-> IF k = "open" THEN 1 ELSE 0]

Supplied(given) == {n \in SettingNames : given[n] # Absent}

Constructed(sizes, kinds) ==
    \E size \in sizes,
       pChunkSize \in {Absent} \cup 1..MaxChunkMB,
       pRetries \in {Absent} \cup 1..MaxRetries,
       pHeaders \in kinds,
       pPost \in {"undefined", "object"} :
       /\ size \in BigSizes =>
             /\ pChunkSize = 1
             /\ pRetries = 1
             /\ pPost = "object"
             /\ pHeaders = "absent"
       /\ LET given == [chunkSize |-> pChunkSize, retries |-> pRetries,
                        delayBeforeRetry |-> Absent, headers |-> pHeaders]
          IN Constructor(size,
                         [chunkSize |-> pChunkSize, retries |-> pRetries,
                          delayBeforeRetry |-> Absent, headers |-> pHeaders,
                          supplied |-> Supplied(given)],
                         pPost)

Init == Constructed(SmallSizes \cup BigSizes, HeaderKinds)

(***************************************************************************)
(* _sendChunks up to its first suspension: _getChunk calls fs.read.        *)
(* p is `pending` as the calling callback leaves it.                       *)
(***************************************************************************)
SendChunks(p) == pending' = Issue(p, "read")

(***************************************************************************)
(* _manageRetries.  p and c are `pending` and `cur` as the calling         *)
(* callback leaves them.                                                   *)
(***************************************************************************)
ManageRetriesNoReturn(p, c) ==
    /\ retriesCount' = retriesCount + 1
    /\ IF RetryAllowed(retriesCount, retries)
       THEN /\ pending' = Issue(p, "timer")
            /\ cur' = [c EXCEPT !.notices = @ + 1]
            /\ Emit(<<FileRetryEvent(chunkCount, retries - (retriesCount + 1)),
                      ErrorEvent("exhausted", chunkCount)>>)
       ELSE /\ pending' = p
            /\ cur' = c
            /\ Emit(<<ErrorEvent("exhausted", chunkCount)>>)

ManageRetriesSilent(p, c) ==
    /\ retriesCount' = retriesCount + 1
    /\ IF RetryAllowed(retriesCount, retries)
       THEN /\ pending' = Issue(p, "timer")
            /\ cur' = [c EXCEPT !.notices = @ + 1]
            /\ Emit(<<FileRetryEvent(chunkCount, retries - (retriesCount + 1))>>)
       ELSE /\ pending' = p
            /\ cur' = c
            /\ Emit(<<>>)

ManageRetries(p, c) ==
    /\ retriesCount' = retriesCount + 1
    /\ IF RetryAllowed(retriesCount, retries)
       THEN /\ pending' = Issue(p, "timer")
            /\ cur' = [c EXCEPT !.notices = @ + 1]
            /\ Emit(<<FileRetryEvent(chunkCount, retries - (retriesCount + 1))>>)
       ELSE /\ pending' = p
            /\ cur' = c
            /\ Emit(<<ErrorEvent("exhausted", chunkCount)>>)

(***************************************************************************)
(* _startSending: the fs.open callback.                                    *)
(***************************************************************************)
OpenOk ==
    /\ pending["open"] > 0
    /\ fd' = "open"
    /\ SendChunks(Complete(pending, "open"))
    /\ UNCHANGED <<params, headers, chunkCount, retriesCount, pos, request, observed,
                   lastStatus, env, cur>>

OpenFailsThenSends ==
    /\ pending["open"] > 0
    /\ SendChunks(Complete(pending, "open"))
    /\ Emit(<<ErrorEvent("start", chunkCount)>>)
    /\ env' = [env EXCEPT !.openErr = @ + 1]
    /\ UNCHANGED <<params, headers, chunkCount, retriesCount, fd, pos, request,
                   lastStatus, cur>>

OpenFails ==
    /\ pending["open"] > 0
    /\ pending' = Complete(pending, "open")
    /\ Emit(<<ErrorEvent("start", chunkCount)>>)
    /\ env' = [env EXCEPT !.openErr = @ + 1]
    /\ UNCHANGED <<params, headers, chunkCount, retriesCount, fd, pos, request,
                   lastStatus, cur>>

(***************************************************************************)
(* _getChunk: the fs.read callback, and what follows it in the same turn   *)
(* of the event loop (fs.close is called, or _sendChunk builds the form    *)
(* and calls fetch, or _sendChunk throws and the catch handler runs).      *)
(***************************************************************************)
\* _sendChunk({data, lastChunk}) with nread bytes read at offset off
SendChunkNoReturn(off, nread) ==
    /\ headers' = [headers EXCEPT !.number = chunkCount]
    /\ request' = [idx |-> chunkCount, off |-> off, len |-> nread,
                   withParams |-> IsLastChunk(nread, chunkSizeBytes),
                   fileId |-> headers.id,
                   chunksTotal |-> headers.total,
                   chunkNumber |-> chunkCount]
    /\ ManageRetries(Issue(Complete(pending, "read"), "fetch"),
                     [cur EXCEPT !.sends = @ + 1])

SendChunk(off, nread) ==
    IF IsLastChunk(nread, chunkSizeBytes) /\ postParams = "undefined"
    THEN \* Object.keys(undefined) throws; .catch calls _manageRetries
         /\ ManageRetries(Complete(pending, "read"), cur)
         /\ UNCHANGED <<headers, request>>
    ELSE \* this.headers['uploader-chunk-number'] = this.chunkCount, and
         \* fetch takes the headers as the mapping holds them then
         /\ headers' = [headers EXCEPT !.number = chunkCount]
         /\ request' = [idx |-> chunkCount, off |-> off, len |-> nread,
                        withParams |-> IsLastChunk(nread, chunkSizeBytes),
                        fileId |-> headers.id,
                        chunksTotal |-> headers.total,
                        chunkNumber |-> chunkCount]
         /\ pending' = Issue(Complete(pending, "read"), "fetch")
         /\ cur' = [cur EXCEPT !.sends = @ + 1]
         /\ UNCHANGED <<retriesCount, observed>>

ReadOk ==
    /\ pending["read"] > 0
    /\ fd = "open"
    /\ LET nread == BytesRead(pos, fileSize, chunkSizeBytes) IN
          /\ pos' = pos + nread
          /\ IF nread = 0
             THEN /\ pending' = Issue(Complete(pending, "read"), "close")
                  /\ UNCHANGED <<headers, retriesCount, request, observed,
                                 cur>>
             ELSE SendChunk(pos, nread)
    /\ UNCHANGED <<params, chunkCount, fd, lastStatus, env>>

\* fs.read reports an I/O error on the open descriptor
ReadFails ==
    /\ pending["read"] > 0
    /\ fd = "open"
    /\ ManageRetries(Complete(pending, "read"), cur)
    /\ env' = [env EXCEPT !.readErr = @ + 1]
    /\ UNCHANGED <<params, headers, chunkCount, fd, pos, request, lastStatus>>

\* fs.read on the descriptor this session has closed: EBADF
ReadClosed ==
    /\ pending["read"] > 0
    /\ fd = "closed"
    /\ ManageRetries(Complete(pending, "read"), cur)
    /\ UNCHANGED <<params, headers, chunkCount, fd, pos, request, lastStatus, env>>

\* the fs.close callback: _getChunk returns undefined, _sendChunk(undefined)
\* throws on its parameter pattern, .catch calls _manageRetries
CloseOkFinishes ==
    /\ pending["close"] > 0
    /\ fd' = "closed"
    /\ pending' = Complete(pending, "close")
    /\ Emit(<<FinishEvent>>)
    /\ UNCHANGED <<params, headers, chunkCount, retriesCount, pos, request,
                   lastStatus, env, cur>>

CloseOk ==
    /\ pending["close"] > 0
    /\ fd' = "closed"
    /\ ManageRetries(Complete(pending, "close"), cur)
    /\ UNCHANGED <<params, headers, chunkCount, pos, request, lastStatus, env>>

\* fs.close reports an error: _getChunk rejects, .catch calls _manageRetries.
\* Whether the descriptor is still open then is up to the OS.
CloseFails ==
    /\ pending["close"] > 0
    /\ fd' \in {"open", "closed"}
    /\ ManageRetries(Complete(pending, "close"), cur)
    /\ env' = [env EXCEPT !.closeErr = @ + 1]
    /\ UNCHANGED <<params, headers, chunkCount, pos, request, lastStatus>>

(***************************************************************************)
(* _sendChunks: the outcome of fetch.                                      *)
(***************************************************************************)
\* what the environment did, recorded by the protocol's status classes
\* whatever the handler makes of the status
Answered(e, status) ==
    IF status \in SuccessStatuses THEN e
    ELSE IF status = NoStatus \/ status \in RetryableStatuses
    THEN [e EXCEPT !.transient = @ + 1]
    ELSE [e EXCEPT !.fatal = @ + 1]

AnsweredChunk(c, status) ==
    IF status = NoStatus \/ status \in RetryableStatuses
    THEN [c EXCEPT !.transient = @ + 1]
    ELSE c

\* the .then((res) => ...) handler of _sendChunks
HandleResponse(status) ==
    IF IsSuccess(status)
    THEN /\ chunkCount' = chunkCount + 1
         /\ cur' = [sends |-> 0, transient |-> 0, notices |-> 0]
         /\ IF HasMoreChunks(chunkCount + 1, totalChunks)
            THEN /\ SendChunks(Complete(pending, "fetch"))
                 /\ Emit(<<ProgressEvent(
                              PercentProgress(chunkCount + 1, totalChunks))>>)
            ELSE /\ pending' = Complete(pending, "fetch")
                 /\ Emit(<<FinishEvent,
                           ProgressEvent(
                              PercentProgress(chunkCount + 1, totalChunks))>>)
         /\ UNCHANGED retriesCount
    ELSE IF IsRetryable(status)
    THEN /\ ManageRetries(Complete(pending, "fetch"),
                          AnsweredChunk(cur, status))
         /\ UNCHANGED chunkCount
    ELSE /\ pending' = Complete(pending, "fetch")
         /\ cur' = AnsweredChunk(cur, status)
         /\ Emit(<<ErrorEvent("status", chunkCount)>>)
         /\ UNCHANGED <<chunkCount, retriesCount>>

Response ==
    /\ pending["fetch"] > 0
    /\ \E status \in Statuses :
          /\ lastStatus' = status
          /\ env' = Answered(env, status)
          /\ HandleResponse(status)
    /\ UNCHANGED <<params, headers, fd, pos, request>>

\* fetch rejects (connection error, or the chunk timeout): the .catch handler
TransportError ==
    /\ pending["fetch"] > 0
    /\ lastStatus' = NoStatus
    /\ env' = Answered(env, NoStatus)
    /\ ManageRetries(Complete(pending, "fetch"), AnsweredChunk(cur, NoStatus))
    /\ UNCHANGED <<params, headers, chunkCount, fd, pos, request>>

\* the chunk timeout expires: the request is aborted and fetch rejects
ChunkTimeout ==
    /\ pending["fetch"] > 0
    /\ lastStatus' = NoStatus
    /\ env' = Answered(env, NoStatus)
    /\ ManageRetries(Complete(pending, "fetch"), AnsweredChunk(cur, NoStatus))
    /\ UNCHANGED <<params, headers, chunkCount, fd, pos, request>>

(***************************************************************************)
(* The retry timer set by _manageRetries fires.                            *)
(***************************************************************************)
TimerFires ==
    /\ pending["timer"] > 0
    /\ SendChunks(Complete(pending, "timer"))
    /\ UNCHANGED <<params, headers, chunkCount, retriesCount, fd, pos, request,
                   observed, lastStatus, env, cur>>

(***************************************************************************)
(* A second uploader, for a file with one chunk more, is given the headers *)
(* mapping this one was given: its constructor and its _sendChunk write    *)
(* into the mapping both hold.                                             *)
(***************************************************************************)
SecondUploaderConstructed ==
    /\ settings.headers = "reused"
    /\ ~thrown
    /\ ~Idle
    /\ headers.id = "this"
    /\ headers' = [headers EXCEPT !.id = "second", !.total = totalChunks + 1]
    /\ UNCHANGED <<params, chunkCount, retriesCount, fd, pos, pending,
                   request, observed, lastStatus, env, cur>>

SecondUploaderSends ==
    /\ headers.id = "second"
    /\ ~Idle
    \* the last chunk number of its file, which has totalChunks + 1 chunks
    /\ headers.number # totalChunks
    /\ headers' = [headers EXCEPT !.number = totalChunks]
    /\ UNCHANGED <<params, chunkCount, retriesCount, fd, pos, pending,
                   request, observed, lastStatus, env, cur>>

Next ==
    \/ OpenOk
    \/ OpenFails
    \/ ReadOk
    \/ ReadFails
    \/ ReadClosed
    \/ CloseOk
    \/ CloseFails
    \/ Response
    \/ TransportError
    \/ ChunkTimeout
    \/ TimerFires
    \/ SecondUploaderConstructed
    \/ SecondUploaderSends

Spec == Init /\ [][Next]_vars

(***************************************************************************)
(* The event loop runs the callback of every operation that completes, and *)
(* every operation completes: reads and closes return, requests are        *)
(* answered, fail or time out, timers fire.                                *)
(***************************************************************************)
Callback ==
    \/ OpenOk
    \/ OpenFails
    \/ ReadOk
    \/ ReadFails
    \/ ReadClosed
    \/ CloseOk
    \/ CloseFails
    \/ Response
    \/ TransportError
    \/ ChunkTimeout
    \/ TimerFires

\* the sessions on the files of a few chunks whose headers mapping the caller
\* may hand to a second uploader
InitLive == Constructed(SmallSizes, {"reused"})

LiveSpec == InitLive /\ [][Next]_vars /\ WF_vars(Callback)

(***************************************************************************)
(* The constructor on any numbers for chunkSize, retries and               *)
(* delayBeforeRetry, zero and negative ones too, for two small files.      *)
(***************************************************************************)
InitAnySettings ==
    \E size \in {1, MB + 1},
       pChunkSize \in -1..1, pRetries \in -1..1, pDelay \in -1..1,
       zeros \in SUBSET SettingNames,
       pHeaders \in HeaderKinds :
       LET given == [chunkSize |-> pChunkSize, retries |-> pRetries,
                     delayBeforeRetry |-> pDelay, headers |-> pHeaders]
       IN /\ \A n \in zeros : given[n] = 0
          /\ Constructor(size,
                         [chunkSize |-> pChunkSize, retries |-> pRetries,
                          delayBeforeRetry |-> pDelay, headers |-> pHeaders,
                          supplied |-> Supplied(given) \cup zeros],
                         "object")

SpecAnySettings == InitAnySettings /\ [][Next]_vars

(***************************************************************************)
(* Properties.                                                             *)
(***************************************************************************)
Terminals == emitted["finish"] + emitted["error"]
NoIoError == env.readErr = 0 /\ env.closeErr = 0 /\ env.openErr = 0
Sent == request # NoRequest

\* C1: at most one terminal event fires in a session: 'finish' and 'error'
\* never both fire and neither fires twice, whatever the responses, transport
\* failures and read failures.
AtMostOneTerminalEvent == Terminals <= 1

\* a session that ended with its one terminal event after a failed read and a
\* transiently failed request
TerminalAfterFailures ==
    /\ Idle
    /\ Terminals = 1
    /\ env.readErr > 0
    /\ env.transient > 0

\* C2: when every request is answered with a success status and nothing else
\* fails, a session on a file of 1 byte or more emits no 'error' and no
\* 'fileRetry', and has emitted 'finish' when it is over, with or without
\* postParams.
AllSuccessFinishes ==
    (fileSize >= 1 /\ NoIoError /\ env.transient = 0 /\ env.fatal = 0)
    => /\ emitted["error"] = 0
       /\ emitted["fileRetry"] = 0
       /\ Idle => emitted["finish"] = 1

\* C3: transient failures are tolerated: when the requests failed transiently
\* fewer times than the retry budget and nothing else failed, the session
\* emits no 'error' and has emitted 'finish' when it is over.  Stated for the
\* sessions that were given postParams.
TransientFailuresTolerated ==
    (/\ postParams = "object"
     /\ fileSize >= 1
     /\ NoIoError
     /\ env.fatal = 0
     /\ env.transient < retries)
    => /\ emitted["error"] = 0
       /\ Idle => emitted["finish"] = 1

\* C4: every request with chunk index i, first attempt or retry, carries the
\* bytes [i * chunkSizeBytes, min((i + 1) * chunkSizeBytes, fileSize)).
RequestCarriesItsChunk ==
    Sent => /\ request.off = request.idx * chunkSizeBytes
            /\ request.len = Min(chunkSizeBytes,
                                 fileSize - request.idx * chunkSizeBytes)

\* C5: in a session that was given postParams, a request carries them if and
\* only if its chunk index is totalChunks - 1.
PostParamsOnFinalChunkOnly ==
    (postParams = "object" /\ Sent)
    => (request.withParams <=> request.idx = totalChunks - 1)

\* C6: a chunk index that was requested and answered with k retryable
\* failures, k within the retry budget, has had exactly k 'fileRetry' events and
\* k or k + 1 requests (k + 1 once the retry is sent), and the session has not
\* failed.  Stated for the sessions that were given postParams and had no
\* read or close failure.
RetriedThenAdvances ==
    (/\ postParams = "object"
     /\ NoIoError
     /\ env.fatal = 0
     /\ cur.sends >= 1
     /\ cur.transient <= retries)
    => /\ cur.notices = cur.transient
       /\ cur.sends \in {cur.transient, cur.transient + 1}
       /\ emitted["error"] = 0

\* C7: in a session whose every attempt from the first request on fails
\* transiently, no chunk index above the failing one is requested, nothing but
\* 'fileRetry' and 'error' is emitted, 'error' is emitted once, as the last
\* event and after exactly `retries` 'fileRetry' events, nothing is outstanding
\* after it, and the session does not end without it.
EveryAttemptFails == Sent /\ chunkCount = 0 /\ env.fatal = 0

ExhaustionEndsSession ==
    EveryAttemptFails
    => /\ request.idx = 0
       /\ emitted["finish"] = 0
       /\ emitted["progress"] = 0
       /\ emitted["fileRetry"] <= retries
       /\ emitted["error"] <= 1
       /\ emitted["error"] = 1
          => /\ emitted["fileRetry"] = retries
             /\ lastEvent.type = "error"
             /\ Idle
       /\ Idle => emitted["error"] = 1

\* every attempt was a request that failed, and the budget is used up
ExhaustedByFailedRequests ==
    /\ EveryAttemptFails
    /\ emitted["error"] = 1
    /\ cur.sends = retries + 1
    /\ cur.transient = retries + 1

\* C8: the retry counter is per chunk: it is zero when no retry of the
\* current chunk index has been announced, and the session fails for
\* exhaustion only after `retries` retries of the chunk index it fails on.
RetryCounterPerChunk ==
    /\ (cur.notices = 0 /\ Terminals = 0) => retriesCount = 0
    /\ lastEvent.detail = "exhausted" => cur.notices = retries

\* C9: a response whose status is neither a success status nor a retryable
\* status produces 'error' at once: that event and no other, the retry counter
\* is not consumed, no timer is set and nothing is outstanding afterwards,
\* whatever retry budget remains.
FatalResponseHandled ==
    /\ pending'["fetch"] < pending["fetch"]
    /\ lastStatus' \in Statuses \ (SuccessStatuses \cup RetryableStatuses)

FatalStatusStopsAtOnce ==
    [][FatalResponseHandled
       => /\ emitted' = [emitted EXCEPT !["error"] = @ + 1]
          /\ lastEvent'.detail = "status"
          /\ retriesCount' = retriesCount
          /\ chunkCount' = chunkCount
          /\ Outstanding' = 0]_vars

\* a fatal status answered a chunk after the first, with retry budget left
FatalStatusWithBudgetLeft ==
    /\ lastStatus \in Statuses \ (SuccessStatuses \cup RetryableStatuses)
    /\ lastEvent.detail = "status"
    /\ chunkCount > 0
    /\ retriesCount > 0
    /\ retriesCount < retries

NonDecreasing(log) == \A i \in 1..(Len(log) - 1) : log[i] <= log[i + 1]
EndsAt100(log) == log # <<>> /\ log[Len(log)] = 100

\* C10 as stated: for totalChunks >= 1 the 'progress' values are a
\* non-decreasing sequence of integers in 0..100 that ends at 100 if and only
\* if 'finish' has fired.
ProgressEndsAt100IffFinish ==
    totalChunks >= 1
    => /\ NonDecreasing(progressLog)
       /\ \A i \in 1..Len(progressLog) : progressLog[i] \in 0..100
       /\ EndsAt100(progressLog) <=> emitted["finish"] = 1

\* C10 as amended: the 'progress' values are a non-decreasing sequence of
\* integers in 0..100; it ends at 100 when 'finish' has fired, and with fewer
\* than 200 chunks only then.
ProgressEndsAt100OnFinish ==
    totalChunks >= 1
    => /\ NonDecreasing(progressLog)
       /\ \A i \in 1..Len(progressLog) : progressLog[i] \in 0..100
       /\ emitted["finish"] = 1 => EndsAt100(progressLog)
       /\ (EndsAt100(progressLog) /\ totalChunks < 200)
          => emitted["finish"] = 1

\* a large file was sent to the end
LargeFileFinished ==
    /\ totalChunks > 100
    /\ emitted["finish"] = 1
    /\ Len(progressLog) = totalChunks

\* C11: once 'finish' or 'error' has fired, no 'progress' and no 'fileRetry'
\* fires: the terminal event is the last event of the session.
TerminalEventIsLast ==
    Terminals >= 1 => lastEvent.type \in {"finish", "error"}

AnyInvalid(given) == \E n \in given.supplied : given[n] <= 0
NothingStarted ==
    /\ Idle
    /\ fd = "none"
    /\ ~Sent
    /\ \A t \in EventTypes : emitted[t] = 0

\* C12: a constructor given a chunkSize, retries or delayBeforeRetry that is
\* zero or negative raises an error to its caller, and no file I/O, request
\* or event follows.
InvalidSettingRaises == AnyInvalid(settings) => (thrown /\ NothingStarted)

\* C13: when opening the file fails, 'error' is emitted exactly once and
\* nothing else happens: no chunk is read, no request sent, no 'fileRetry',
\* 'progress' or 'finish' emitted, and nothing is outstanding.
OpenFailureEndsSession ==
    env.openErr > 0
    => /\ emitted = [t \in EventTypes |-> IF t = "error" THEN 1 ELSE 0]
       /\ lastEvent.detail = "start"
       /\ ~Sent
       /\ fd = "none"
       /\ pos = 0
       /\ retriesCount = 0
       /\ Idle

\* opening failed and the session is over
OpenFailed == env.openErr > 0 /\ emitted["error"] = 1 /\ Idle

RequestSent == pending'["fetch"] > pending["fetch"]

\* C14: chunk indices advance one at a time and only on acceptance: a request
\* carries the current chunk index, which is the index of the request before
\* it or that index plus one, and in the latter case a success response was
\* the last answer; the chunk counter changes only by one, on a success
\* response to a request with the current index, and never exceeds
\* totalChunks.
IndicesAdvanceOnAcceptance ==
    /\ [](chunkCount <= totalChunks)
    /\ [][/\ RequestSent
             => /\ request'.idx = chunkCount
                /\ request'.chunkNumber = chunkCount
                /\ chunkCount' = chunkCount
                /\ IF Sent
                   THEN /\ request'.idx \in {request.idx, request.idx + 1}
                        /\ request'.idx = request.idx + 1
                           => lastStatus \in SuccessStatuses
                   ELSE request'.idx = 0
          /\ chunkCount' # chunkCount
             => /\ chunkCount' = chunkCount + 1
                /\ request.idx = chunkCount
                /\ pending'["fetch"] < pending["fetch"]
                /\ lastStatus' \in SuccessStatuses]_vars

\* the third chunk index is requested in a session that had a retry
ThirdIndexAfterRetry ==
    /\ request.idx = 2
    /\ pending["fetch"] = 1
    /\ emitted["fileRetry"] > 0

\* C15: at most one operation of a session is outstanding at any time: never
\* two requests in flight, and never a file read, a request and a retry timer
\* side by side.
OneOperationOutstanding == Outstanding <= 1

\* a retry timer is pending after a request failed
TimerAfterFailedRequest ==
    /\ pending["timer"] = 1
    /\ env.transient > 0
    /\ Sent

\* C16: when the reader has consumed all bytes of the file and 'finish' has
\* fired, the file handle is closed once the session is over.
ClosedAfterFinish ==
    (emitted["finish"] = 1 /\ pos = fileSize /\ Idle) => fd = "closed"

\* C17: every session terminates: it eventually emits 'finish' or 'error',
\* and from that event on no read, close, request or timer is outstanding.
SessionTerminates ==
    /\ <>(Terminals = 1)
    /\ [](Terminals >= 1 => Idle)

\* a session on a zero-byte file is over
ZeroByteSessionOver == fileSize = 0 /\ Terminals = 1 /\ Idle /\ fd = "closed"

\* C18: the 'uploader-file-id' and 'uploader-chunks-total' headers of every
\* request are the values this session's constructor computed, and
\* 'uploader-chunk-number' is the session's current chunk index.
HeadersAreThisSessions ==
    Sent => /\ request.fileId = "this"
            /\ request.chunksTotal = totalChunks
            /\ request.chunkNumber = request.idx

\* C19: once the file handle is closed, no read and no second close is
\* issued on it.
NoUseAfterClose ==
    fd = "closed" => (pending["read"] = 0 /\ pending["close"] = 0)

\* C20 as stated: for a zero-byte file no request is sent, 'finish' and
\* 'progress' never fire, and the session ends with exactly one 'error' after
\* exactly `retries` 'fileRetry' events.
ZeroByteFileExhausts ==
    fileSize = 0
    => /\ ~Sent
       /\ emitted["finish"] = 0
       /\ emitted["progress"] = 0
       /\ emitted["error"] <= 1
       /\ emitted["fileRetry"] <= retries
       /\ emitted["error"] = 1 => emitted["fileRetry"] = retries
       /\ Idle => emitted["error"] = 1

\* C20 as amended: the same, for the sessions whose file was opened; when
\* opening fails the one 'error' fires after no 'fileRetry'.
ZeroByteFileFails ==
    fileSize = 0
    => /\ ~Sent
       /\ emitted["finish"] = 0
       /\ emitted["progress"] = 0
       /\ emitted["error"] <= 1
       /\ emitted["fileRetry"] <= retries
       /\ emitted["error"] = 1
          => emitted["fileRetry"] = (IF env.openErr = 0 THEN retries ELSE 0)
       /\ Idle => (emitted["error"] = 1 /\ lastEvent.type = "error")

\* a session on a zero-byte file that was opened has used up its retries
ZeroByteFileExhausted ==
    /\ fileSize = 0
    /\ env.openErr = 0
    /\ Idle
    /\ emitted["error"] = 1
    /\ emitted["fileRetry"] = retries

====
